---- MODULE Spec2Model ----
(***************************************************************************)
(* The validator directory of the validator client                         *)
(* (validator_client/src/validator_directory.rs): the builder that creates *)
(* a validator's directory, key files, deposit file and slashing           *)
(* protection databases, and load_for_signing, which reads them back.      *)
(*                                                                         *)
(* Text is a sequence of strings: one character each where the code works  *)
(* on characters (hex, the 0x prefix), the whole literal for a file name   *)
(* the code only joins to a path. File content is a sequence of bytes      *)
(* (0..255); Option<T> is a sequence of length 0 (None) or 1 (Some).       *)
(***************************************************************************)
EXTENDS Integers, Sequences, FiniteSets, TLC

\* ------------------------------------------------------------------ bounds

\* Files removed or damaged from outside over a run.
MaxFaults == 1
\* Builder steps that change the file system (create_directory,
\* write_keypair_files, write_eth1_data_file, create_sqlite_slashing_dbs)
\* and succeed, over a run.
MaxWrites == 4
\* Bytes of an encoded public key and of an encoded secret key.
PkBytesLen == 1
SkBytesLen == 1

\* ------------------------------------------------------------------ Option

None == <<>>
Some(x) == <<x>>
IsSome(o) == Len(o) = 1
IsNone(o) == Len(o) = 0
Unwrap(o) == o[1]

Ok(v) == [ok |-> TRUE, val |-> v, err |-> ""]
Err(e) == [ok |-> FALSE, val |-> None, err |-> e]

\* ------------------------------------------------------------------ names

VOTING_KEY_PREFIX == <<"voting">>
WITHDRAWAL_KEY_PREFIX == <<"withdrawal">>
ETH1_DEPOSIT_DATA_FILE == <<"eth1_deposit_data.rlp">>
ATTESTER_SLASHING_DB == <<"attester_slashing_protection.sqlite">>
BLOCK_PRODUCER_SLASHING_DB == <<"block_producer_slashing_protection.sqlite">>

\* format!("{}_keypair", prefix)
keypair_file(prefix) == prefix \o <<"_keypair">>

\* ------------------------------------------------------------------ hex

HexDigits == <<"0","1","2","3","4","5","6","7","8","9","a","b","c","d","e","f">>
UpperHexDigits == <<"0","1","2","3","4","5","6","7","8","9","A","B","C","D","E","F">>

RECURSIVE hex_encode(_)
\* hex::encode: two lowercase digits per byte, high nibble first.
hex_encode(bytes) ==
    IF bytes = <<>> THEN <<>>
    ELSE <<HexDigits[(Head(bytes) \div 16) + 1], HexDigits[(Head(bytes) % 16) + 1]>>
         \o hex_encode(Tail(bytes))

HexChars == {HexDigits[i] : i \in 1..16} \cup {UpperHexDigits[i] : i \in 1..16}
\* The value of each hex digit, of either case.
HexValues == [c \in HexChars |->
                (CHOOSE i \in 1..16 : HexDigits[i] = c \/ UpperHexDigits[i] = c) - 1]
IsHexDigit(c) == c \in HexChars
HexVal(c) == HexValues[c]

RECURSIVE HexPairs(_)
HexPairs(chars) ==
    IF chars = <<>> THEN <<>>
    ELSE <<HexVal(chars[1]) * 16 + HexVal(chars[2])>> \o HexPairs(SubSeq(chars, 3, Len(chars)))

\* hex::decode: an odd length or a character that is no hex digit is an error.
hex_decode(chars) ==
    IF Len(chars) % 2 # 0 THEN Err("Odd number of digits")
    ELSE IF \E i \in 1..Len(chars) : ~IsHexDigit(chars[i]) THEN Err("Invalid character")
    ELSE Ok(HexPairs(chars))

\* The characters the files of a validator directory are written with, and
\* their codes.
AsciiChars == HexChars \cup {"x"}

AsciiCodes == [c \in AsciiChars |->
    IF c = "x" THEN 120
    ELSE IF \E i \in 1..10 : HexDigits[i] = c THEN 48 + HexVal(c)
    ELSE IF \E i \in 11..16 : HexDigits[i] = c THEN 97 + (HexVal(c) - 10)
    ELSE 65 + (HexVal(c) - 10)]
AsciiCode(c) == AsciiCodes[c]

\* The character of each byte; "?" for a byte that is none of AsciiChars.
CharOfByte == [b \in 0..255 |->
    IF \E c \in AsciiChars : AsciiCodes[c] = b
    THEN CHOOSE c \in AsciiChars : AsciiCodes[c] = b
    ELSE "?"]

\* str::as_bytes
as_bytes(chars) == [i \in 1..Len(chars) |-> AsciiCode(chars[i])]

\* String::from_utf8_lossy: a byte that is no character of the model's
\* alphabet reads as a character that is neither "x" nor a hex digit.
from_utf8_lossy(bytes) == [i \in 1..Len(bytes) |-> CharOfByte[bytes[i]]]

\* str::starts_with("0x")
starts_with_0x(chars) == Len(chars) >= 2 /\ chars[1] = "0" /\ chars[2] = "x"

\* ------------------------------------------------------------------ paths

\* A PathBuf: absolute or relative, and its components.
Path(abs, comps) == [abs |-> abs, comps |-> comps]

\* PathBuf::join: an absolute argument replaces the path.
join(p, q) == IF q.abs THEN q ELSE Path(p.abs, p.comps \o q.comps)

\* A relative path of one component (a &str joined to a path).
Name(chars) == Path(FALSE, <<chars>>)

Parent(p) == Path(p.abs, SubSeq(p.comps, 1, Len(p.comps) - 1))

FileName(p) == p.comps[Len(p.comps)]

\* The path and the directories above it (fs::create_dir_all creates them).
Ancestors(p) == {Path(p.abs, SubSeq(p.comps, 1, n)) : n \in 1..Len(p.comps)}

\* ------------------------------------------------------------------ keys

\* The indices given to insecure_keypairs, and the secret keys the two
\* calls of Keypair::random() in thread_random_keypairs may return (voting,
\* withdrawal).
KeyIndices == {0}
RandomDraws == {<<2, 3>>}

\* PublicKey::from_secret_key
pk_from_sk(sk) == 160 + 17 * sk

Keypair(sk) == [pk |-> pk_from_sk(sk), sk |-> sk]

\* types::test_utils::generate_deterministic_keypair
generate_deterministic_keypair(index) == Keypair(index + 1)

RECURSIVE ToBytes(_, _)
\* A number as `len` bytes, the most significant first.
ToBytes(n, len) ==
    IF len = 0 THEN <<>> ELSE ToBytes(n \div 256, len - 1) \o <<n % 256>>

RECURSIVE FromBytes(_)
FromBytes(bytes) ==
    IF bytes = <<>> THEN 0
    ELSE FromBytes(SubSeq(bytes, 1, Len(bytes) - 1)) * 256 + bytes[Len(bytes)]

\* PublicKey::as_ssz_bytes
pk_as_ssz_bytes(pk) == ToBytes(pk, PkBytesLen)

\* SszEncodableKeypair::from(keypair).as_ssz_bytes(): the two fixed-length
\* fields, pk then sk.
keypair_as_ssz_bytes(kp) == ToBytes(kp.pk, PkBytesLen) \o ToBytes(kp.sk, SkBytesLen)

\* SszEncodableKeypair::from_ssz_bytes(..).map(Into::into): input of any
\* other length is rejected; the public key is not re-derived from the
\* secret key.
keypair_from_ssz_bytes(bytes) ==
    IF Len(bytes) # PkBytesLen + SkBytesLen THEN Err("InvalidByteLength")
    ELSE Ok([pk |-> FromBytes(SubSeq(bytes, 1, PkBytesLen)),
             sk |-> FromBytes(SubSeq(bytes, PkBytesLen + 1, PkBytesLen + SkBytesLen))])

\* dir_name: "0x" and the hex of the voting public key's bytes.
dir_name(voting_pubkey) == <<"0","x">> \o hex_encode(pk_as_ssz_bytes(voting_pubkey))

\* ------------------------------------------------------------------ deposit

\* E::default_spec(): the fields of ChainSpec the builder reads.
ChainSpecs == {[max_effective_balance |-> 32, bls_withdrawal_prefix_byte |-> 0]}
\* Deposits given to custom_deposit_amount.
CustomAmounts == {32}
\* E::slots_per_epoch() of the minimal and of the mainnet preset: the values
\* a caller gives to load_for_signing, and the one given to the builder.
SlotsPerEpochValues == {8, 32}
BuilderSlotsPerEpoch == {8}

\* bls::get_withdrawal_credentials: the prefix byte, then a digest of the key.
get_withdrawal_credentials(pk, prefix_byte) == <<prefix_byte, (3 * pk + 1) % 256>>

\* DepositData::create_signature
create_signature(deposit_data, sk) ==
    (sk + deposit_data.pubkey + deposit_data.amount
        + deposit_data.withdrawal_credentials[2]) % 256

\* deposit_contract::encode_eth1_tx_data
encode_eth1_tx_data(deposit_data) ==
    ToBytes(deposit_data.pubkey, PkBytesLen)
        \o deposit_data.withdrawal_credentials
        \o <<deposit_data.amount % 256, deposit_data.signature>>

\* format!("0x{}", hex::encode(&deposit_data)).as_bytes()
\* The deposit file as the bytes themselves.
eth1_file_bytes_raw(deposit_data) == deposit_data

\* The deposit file without its "0x".
eth1_file_bytes_unprefixed(deposit_data) == as_bytes(hex_encode(deposit_data))

eth1_file_bytes(deposit_data) == as_bytes(<<"0","x">> \o hex_encode(deposit_data))

\* The deposit_data block of write_eth1_data_file.
eth1_deposit_bytes(voting_keypair, withdrawal_keypair, amount, spec) ==
    LET withdrawal_credentials ==
            get_withdrawal_credentials(withdrawal_keypair.pk, spec.bls_withdrawal_prefix_byte)
        unsigned == [pubkey |-> voting_keypair.pk,
                     withdrawal_credentials |-> withdrawal_credentials,
                     amount |-> amount,
                     signature |-> 0]
        deposit_data == [unsigned EXCEPT !.signature = create_signature(unsigned, voting_keypair.sk)]
    IN  encode_eth1_tx_data(deposit_data)

\* ------------------------------------------------------------------ files

\* libc::S_IRUSR, libc::S_IWUSR; the mode of a file File::create makes
\* (0o666 under the usual umask 0o022).
S_IRUSR == 256
S_IWUSR == 128
CREATE_MODE == 420

\* A regular file, or a sqlite database holding an optional slots_per_epoch.
RegularFile(mode, data) == [kind |-> "file", mode |-> mode, data |-> data, spe |-> None]
Database(spe) == [kind |-> "db", mode |-> CREATE_MODE, data |-> <<>>, spe |-> spe]

\* The base path given to create_directory (temp_dir.path() in the tests).
BasePaths == {Path(TRUE, <<<<"v">>>>)}

VARIABLES
    dirs,       \* the directories that exist
    files,      \* the files that exist: path -> file
    builder,    \* the ValidatorDirectoryBuilder in the caller's hands
    alive,      \* whether the caller holds a builder (a step that fails drops it)
    pc,         \* the position inside write_keypair_files
    last,       \* the last call and its result
    built,      \* what build() returned, while the files are as the builder left them
    loaded,     \* what the last load_for_signing returned, and its arguments
    created,    \* the arguments of the builder's last successful create_directory
    stage,      \* how far the builder is through the steps of the round-trip tests
    nFaults,    \* the files removed or damaged from outside so far
    nWrites,    \* the builder steps that changed the file system so far
    key_index,  \* the index insecure_keypairs derived the builder's keys from
    base_paths, \* the base paths the callers give create_directory
    key_indices,\* the indices the callers give insecure_keypairs
    parked      \* a second caller's builder, while the first one's is at work

vars == <<dirs, files, builder, alive, pc, last, built, loaded, created, stage, nFaults, nWrites,
          key_index, base_paths, key_indices, parked>>

\* How many bytes of `len` a write that fails, or a damaged file, keeps:
\* one, or all but the last.
PartialLengths(len) == {n \in {1, len - 1} : 0 <= n /\ n < len}

\* Path::exists
exists(p) == p \in dirs \/ p \in DOMAIN files

WithFile(fs, p, f) == [q \in (DOMAIN fs) \cup {p} |-> IF q = p THEN f ELSE fs[q]]
WithoutFile(fs, p) == [q \in (DOMAIN fs) \ {p} |-> fs[q]]

\* File::open(..).read_to_end(..)
read_to_end(p) ==
    IF p \in DOMAIN files THEN Ok(files[p].data) ELSE Err("Unable to open file")

\* ------------------------------------------------------------------ stores

\* ValidatorHistory::new(path, slots_per_epoch) as a change of the files:
\* it creates the database file, which must not exist yet, in a directory
\* that does, and records the parameter in it.
ValidatorHistory_new(fs, path, slots_per_epoch) ==
    IF Parent(path) \notin dirs THEN Err("unable to open database file")
    ELSE IF path \in DOMAIN fs \/ path \in dirs THEN Err("File exists")
    ELSE Ok(WithFile(fs, path, Database(slots_per_epoch)))

\* ValidatorHistory::new of a store with a storage bug: the database is
\* created and the parameter is not retained.
ValidatorHistory_new_forgetting(fs, path, slots_per_epoch) ==
    ValidatorHistory_new(fs, path, None)

\* ValidatorHistory::open(path, slots_per_epoch): the handle of an existing
\* database; the caller's value is used only if the store holds none.
ValidatorHistory_open(path, slots_per_epoch) ==
    IF path \notin DOMAIN files \/ files[path].kind # "db"
    THEN Err("file is not a database")
    ELSE Ok([slots_per_epoch |->
                IF IsSome(files[path].spe) THEN files[path].spe ELSE slots_per_epoch])

\* ValidatorHistory::slots_per_epoch(&self)
history_slots_per_epoch(handle) ==
    IF IsSome(handle.slots_per_epoch) THEN Ok(Unwrap(handle.slots_per_epoch))
    ELSE Err("NoSlotsPerEpochProvided")

\* ------------------------------------------------------------------ loader

\* load_keypair
load_keypair(base_path, file_prefix) ==
    LET path == join(base_path, Name(keypair_file(file_prefix)))
        bytes == read_to_end(path)
    IN  IF ~exists(path) THEN Err("Keypair file does not exist")
        ELSE IF ~bytes.ok THEN Err("Unable to open keypair file")
        ELSE LET kp == keypair_from_ssz_bytes(bytes.val)
             IN  IF kp.ok THEN kp ELSE Err("Unable to decode keypair")

\* load_eth1_deposit_data
load_eth1_deposit_data(base_path) ==
    LET path == join(base_path, Name(ETH1_DEPOSIT_DATA_FILE))
        bytes == read_to_end(path)
    IN  IF ~exists(path) THEN Err("Eth1 deposit data file does not exist")
        ELSE IF ~bytes.ok THEN Err("Unable to open eth1 deposit data file")
        ELSE LET string == from_utf8_lossy(bytes.val)
             IN  IF starts_with_0x(string)
                 THEN LET decoded == hex_decode(SubSeq(string, 3, Len(string)))
                      IN  IF decoded.ok THEN decoded
                          ELSE Err("Unable to decode eth1 data file as hex")
                 ELSE Err("String did not start with 0x")

\* Result::ok
ok_option(result) == IF result.ok THEN Some(result.val) ELSE None

\* A check that is content with one of the two stores.
slashing_protection_either(attestation_slashing_protection, block_slashing_protection) ==
    exists(attestation_slashing_protection) \/ exists(block_slashing_protection)

\* load_for_signing's check that both slashing protection files exist.
slashing_protection_found(attestation_slashing_protection, block_slashing_protection) ==
    exists(attestation_slashing_protection) /\ exists(block_slashing_protection)

\* A loader that opens the store and keeps the caller's value.
block_history_argument(block_slashing_protection, slots_per_epoch) ==
    LET block_history == ValidatorHistory_open(block_slashing_protection, Some(slots_per_epoch))
    IN  IF ~block_history.ok THEN Err(block_history.err)
        ELSE Ok(slots_per_epoch)

\* A loader that opens the store without the caller's value.
block_history_without_fallback(block_slashing_protection, slots_per_epoch) ==
    LET block_history == ValidatorHistory_open(block_slashing_protection, None)
    IN  IF ~block_history.ok THEN Err(block_history.err)
        ELSE history_slots_per_epoch(block_history.val)

\* load_for_signing: the block proposer db is opened with the caller's
\* value and its slots_per_epoch read back; either may fail.
block_history_slots_per_epoch(block_slashing_protection, slots_per_epoch) ==
    LET block_history == ValidatorHistory_open(block_slashing_protection, Some(slots_per_epoch))
    IN  IF ~block_history.ok THEN Err(block_history.err)
        ELSE history_slots_per_epoch(block_history.val)

\* A loader for which the voting keypair is optional too.
load_for_signing_optional_voting(directory, slots_per_epoch) ==
    LET attestation_slashing_protection == join(directory, Name(ATTESTER_SLASHING_DB))
        block_slashing_protection == join(directory, Name(BLOCK_PRODUCER_SLASHING_DB))
        read_back == block_history_slots_per_epoch(block_slashing_protection, slots_per_epoch)
    IN  IF ~exists(directory) THEN Err("Validator directory does not exist")
        ELSE IF ~slashing_protection_found(attestation_slashing_protection,
                                           block_slashing_protection)
        THEN Err("Unable to find slashing protection")
        ELSE IF ~read_back.ok THEN Err(read_back.err)
        ELSE Ok([directory |-> directory,
                 voting_keypair |-> ok_option(load_keypair(directory, VOTING_KEY_PREFIX)),
                 withdrawal_keypair |->
                     ok_option(load_keypair(directory, WITHDRAWAL_KEY_PREFIX)),
                 deposit_data |-> ok_option(load_eth1_deposit_data(directory)),
                 attestation_slashing_protection |-> Some(attestation_slashing_protection),
                 block_slashing_protection |-> Some(block_slashing_protection),
                 slots_per_epoch |-> Some(read_back.val)])

\* ValidatorDirectory::load_for_signing
load_for_signing(directory, slots_per_epoch) ==
    LET attestation_slashing_protection == join(directory, Name(ATTESTER_SLASHING_DB))
        block_slashing_protection == join(directory, Name(BLOCK_PRODUCER_SLASHING_DB))
        read_back == block_history_slots_per_epoch(block_slashing_protection, slots_per_epoch)
        voting == load_keypair(directory, VOTING_KEY_PREFIX)
    IN  IF ~exists(directory) THEN Err("Validator directory does not exist")
        ELSE IF ~slashing_protection_found(attestation_slashing_protection,
                                           block_slashing_protection)
        THEN Err("Unable to find slashing protection")
        ELSE IF ~read_back.ok THEN Err(read_back.err)
        ELSE IF ~voting.ok THEN Err("Unable to get voting keypair")
        ELSE Ok([directory |-> directory,
                 voting_keypair |-> Some(voting.val),
                 withdrawal_keypair |->
                     ok_option(load_keypair(directory, WITHDRAWAL_KEY_PREFIX)),
                 deposit_data |-> ok_option(load_eth1_deposit_data(directory)),
                 attestation_slashing_protection |-> Some(attestation_slashing_protection),
                 block_slashing_protection |-> Some(block_slashing_protection),
                 slots_per_epoch |-> Some(read_back.val)])

\* ------------------------------------------------------------------ builder

\* ValidatorDirectoryBuilder::default()
DefaultBuilder ==
    [directory |-> None, voting_keypair |-> None, withdrawal_keypair |-> None,
     amount |-> None, deposit_data |-> None,
     attestation_slashing_protection |-> None, block_slashing_protection |-> None,
     spec |-> None, slots_per_epoch |-> None]

Idle == [at |-> "idle", prefix |-> <<>>, directory |-> None]
NoResult == [ok |-> FALSE, val |-> None, err |-> "", called |-> FALSE]
NoLoad == [called |-> FALSE, ok |-> FALSE, val |-> None, err |-> "",
           directory |-> None, slots_per_epoch |-> None]

Called(op, ok, err) == [op |-> op, ok |-> ok, err |-> err]

\* The place of a step in the sequence the round-trip tests run: the next
\* stage if the step comes in its turn, -1 otherwise.
NextStage(n) == IF stage = n - 1 THEN n ELSE -1

\* No second caller.
Nobody == [builder |-> DefaultBuilder, alive |-> FALSE, pc |-> Idle, built |-> NoResult,
           created |-> None, stage |-> -1, key_index |-> None]

Init ==
    /\ dirs = {Path(TRUE, <<<<"v">>>>)}
    /\ files = <<>>
    /\ builder = DefaultBuilder
    /\ alive = TRUE
    /\ pc = Idle
    /\ last = Called("init", TRUE, "")
    /\ built = NoResult
    /\ loaded = NoLoad
    /\ created = None
    /\ stage = 0
    /\ nFaults = 0
    /\ nWrites = 0
    /\ key_index = None
    /\ base_paths = BasePaths
    /\ key_indices = KeyIndices
    /\ parked = Nobody

\* The caller may call a builder step: it holds a builder and no step runs.
CanStep == alive /\ pc = Idle

\* One more step may change the file system.
CanWrite == nWrites < MaxWrites

\* A step returned Ok(self) with the builder `b`, its keys derived from
\* `index` if from any.
Keyed(op, b, n, index) ==
    /\ builder' = b
    /\ key_index' = index
    /\ alive' = TRUE
    /\ pc' = Idle
    /\ last' = Called(op, TRUE, "")
    /\ loaded' = NoLoad
    /\ stage' = NextStage(n)

\* A step returned Ok(self) with the builder `b`.
Returned(op, b, n) == Keyed(op, b, n, key_index)

\* A step returned Err: the builder, moved into the step, is gone.
Failed(op, err) ==
    /\ builder' = DefaultBuilder
    /\ key_index' = None
    /\ alive' = FALSE
    /\ pc' = Idle
    /\ last' = Called(op, FALSE, err)
    /\ loaded' = NoLoad
    /\ created' = None
    /\ stage' = -1

\* ValidatorDirectoryBuilder::spec
spec ==
    /\ CanStep
    /\ \E s \in ChainSpecs : Returned("spec", [builder EXCEPT !.spec = Some(s)], 1)
    /\ UNCHANGED <<base_paths, key_indices, parked, dirs, files, built, created, nFaults, nWrites>>

\* ValidatorDirectoryBuilder::slots_per_epoch
slots_per_epoch ==
    /\ CanStep
    /\ \E s \in BuilderSlotsPerEpoch :
          Returned("slots_per_epoch", [builder EXCEPT !.slots_per_epoch = Some(s)], 2)
    /\ UNCHANGED <<base_paths, key_indices, parked, dirs, files, built, created, nFaults, nWrites>>

\* ValidatorDirectoryBuilder::full_deposit_amount
full_deposit_amount ==
    /\ CanStep
    /\ IF IsNone(builder.spec)
       THEN Failed("full_deposit_amount", "full_deposit_amount requires a spec")
       ELSE /\ Returned("full_deposit_amount",
                  [builder EXCEPT !.amount = Some(Unwrap(builder.spec).max_effective_balance)], 3)
            /\ UNCHANGED created
    /\ UNCHANGED <<base_paths, key_indices, parked, dirs, files, built, nFaults, nWrites>>

\* ValidatorDirectoryBuilder::custom_deposit_amount
custom_deposit_amount ==
    /\ CanStep
    /\ \E gwei \in CustomAmounts :
          Returned("custom_deposit_amount", [builder EXCEPT !.amount = Some(gwei)], 3)
    /\ UNCHANGED <<base_paths, key_indices, parked, dirs, files, built, created, nFaults, nWrites>>

\* ValidatorDirectoryBuilder::thread_random_keypairs
thread_random_keypairs ==
    /\ CanStep
    /\ \E draw \in RandomDraws :
          Keyed("thread_random_keypairs",
              [builder EXCEPT !.voting_keypair = Some(Keypair(draw[1])),
                              !.withdrawal_keypair = Some(Keypair(draw[2]))], 4, None)
    /\ UNCHANGED <<base_paths, key_indices, parked, dirs, files, built, created, nFaults, nWrites>>

\* An insecure_keypairs that derives the withdrawal key from the next index.
insecure_keypairs_distinct ==
    /\ CanStep
    /\ \E index \in key_indices :
          Keyed("insecure_keypairs",
              [builder EXCEPT
                  !.voting_keypair = Some(generate_deterministic_keypair(index)),
                  !.withdrawal_keypair = Some(generate_deterministic_keypair(index + 1))],
              4, Some(index))
    /\ UNCHANGED <<base_paths, key_indices, parked, dirs, files, built, created, nFaults, nWrites>>

\* ValidatorDirectoryBuilder::insecure_keypairs
insecure_keypairs ==
    /\ CanStep
    /\ \E index \in key_indices :
          LET keypair == generate_deterministic_keypair(index)
          IN  Keyed("insecure_keypairs",
                  [builder EXCEPT !.voting_keypair = Some(keypair),
                                  !.withdrawal_keypair = Some(keypair)], 4, Some(index))
    /\ UNCHANGED <<base_paths, key_indices, parked, dirs, files, built, created, nFaults, nWrites>>

\* A create_directory that does not look for the directory first.
create_directory_unchecked ==
    /\ CanStep
    /\ \E base_path \in base_paths :
          IF IsNone(builder.voting_keypair)
          THEN /\ Failed("create_directory", "directory requires a voting_keypair")
               /\ UNCHANGED <<dirs, nWrites>>
          ELSE LET directory ==
                       join(base_path, Name(dir_name(Unwrap(builder.voting_keypair).pk)))
               IN  /\ CanWrite
                   /\ nWrites' = nWrites + 1
                   /\ dirs' = dirs \cup Ancestors(directory)
                   /\ Returned("create_directory",
                          [builder EXCEPT !.directory = Some(directory)], 5)
                   /\ created' = Some([pk |-> Unwrap(builder.voting_keypair).pk,
                                       base_path |-> base_path])
    /\ UNCHANGED <<base_paths, key_indices, parked, files, built, nFaults>>

\* ValidatorDirectoryBuilder::create_directory
create_directory ==
    /\ CanStep
    /\ \E base_path \in base_paths :
          IF IsNone(builder.voting_keypair)
          THEN /\ Failed("create_directory", "directory requires a voting_keypair")
               /\ UNCHANGED <<dirs, nWrites>>
          ELSE LET directory ==
                       join(base_path, Name(dir_name(Unwrap(builder.voting_keypair).pk)))
               IN  IF exists(directory)
                   THEN /\ Failed("create_directory", "Validator directory already exists")
                        /\ UNCHANGED <<dirs, nWrites>>
                   ELSE /\ CanWrite
                        /\ nWrites' = nWrites + 1
                        /\ dirs' = dirs \cup Ancestors(directory)
                        /\ Returned("create_directory",
                               [builder EXCEPT !.directory = Some(directory)], 5)
                        /\ created' = Some([pk |-> Unwrap(builder.voting_keypair).pk,
                                            base_path |-> base_path])
    /\ UNCHANGED <<base_paths, key_indices, parked, files, built, nFaults>>

\* A save_keypair that falls back to the current directory.
keypair_path_or_current(file_prefix) ==
    IF IsNone(builder.directory) THEN Some(Name(keypair_file(file_prefix)))
    ELSE Some(join(Unwrap(builder.directory), Name(keypair_file(file_prefix))))

\* The path save_keypair writes: None without a directory.
keypair_path(file_prefix) ==
    IF IsNone(builder.directory) THEN None
    ELSE Some(join(Unwrap(builder.directory), Name(keypair_file(file_prefix))))

\* The key save_keypair writes under a prefix.
keypair_of(file_prefix) ==
    IF file_prefix = VOTING_KEY_PREFIX THEN Unwrap(builder.voting_keypair)
    ELSE Unwrap(builder.withdrawal_keypair)

\* ValidatorDirectoryBuilder::write_keypair_files, up to its first save_keypair.
write_keypair_files ==
    /\ CanStep
    /\ IF IsNone(builder.voting_keypair)
       THEN Failed("write_keypair_files", "write_keypair_files requires a voting_keypair")
       ELSE IF IsNone(builder.withdrawal_keypair)
       THEN Failed("write_keypair_files", "write_keypair_files requires a withdrawal_keypair")
       ELSE /\ pc' = [Idle EXCEPT !.at = "save_keypair", !.prefix = VOTING_KEY_PREFIX]
            /\ last' = Called("write_keypair_files", FALSE, "running")
            /\ loaded' = NoLoad
            /\ UNCHANGED <<key_index, builder, alive, created, stage>>
    /\ UNCHANGED <<base_paths, key_indices, parked, dirs, files, built, nFaults, nWrites>>

\* A save_keypair whose File::create truncates a file that is there.
save_keypair_create_unchecked ==
    /\ alive
    /\ pc.at = "save_keypair"
    /\ LET path == keypair_path(pc.prefix)
       IN  IF IsNone(path)
           THEN /\ Failed("write_keypair_files", "save_keypair requires a directory")
                /\ UNCHANGED <<files, nWrites>>
           ELSE /\ pc.prefix = VOTING_KEY_PREFIX => CanWrite
                /\ nWrites' = IF pc.prefix = VOTING_KEY_PREFIX THEN nWrites + 1 ELSE nWrites
                /\ files' = WithFile(files, Unwrap(path), RegularFile(CREATE_MODE, <<>>))
                /\ pc' = [pc EXCEPT !.at = "created"]
                /\ UNCHANGED <<key_index, builder, alive, last, loaded, created, stage>>
    /\ UNCHANGED <<base_paths, key_indices, parked, dirs, built, nFaults>>

\* save_keypair, to File::create: the directory and the absence of the
\* file are checked, and the file is created empty.
save_keypair_create ==
    /\ alive
    /\ pc.at = "save_keypair"
    /\ LET path == keypair_path(pc.prefix)
       IN  IF IsNone(path)
           THEN /\ Failed("write_keypair_files", "save_keypair requires a directory")
                /\ UNCHANGED <<files, nWrites>>
           ELSE IF exists(Unwrap(path))
           THEN /\ Failed("write_keypair_files", "Keypair file already exists")
                /\ UNCHANGED <<files, nWrites>>
           ELSE /\ pc.prefix = VOTING_KEY_PREFIX => CanWrite
                /\ nWrites' = IF pc.prefix = VOTING_KEY_PREFIX THEN nWrites + 1 ELSE nWrites
                /\ files' = WithFile(files, Unwrap(path), RegularFile(CREATE_MODE, <<>>))
                /\ pc' = [pc EXCEPT !.at = "created"]
                /\ UNCHANGED <<key_index, builder, alive, last, loaded, created, stage>>
    /\ UNCHANGED <<base_paths, key_indices, parked, dirs, built, nFaults>>

\* A save_keypair that leaves the file the mode File::create gave it.
save_keypair_keep_permissions ==
    /\ alive
    /\ pc.at = "created"
    /\ pc' = [pc EXCEPT !.at = "permitted"]
    /\ UNCHANGED <<base_paths, key_indices, parked, dirs, files, key_index, builder, alive, last, built, loaded, created, stage, nFaults, nWrites>>

\* save_keypair: perm.set_mode(S_IWUSR | S_IRUSR); file.set_permissions(perm)
save_keypair_set_permissions ==
    /\ alive
    /\ pc.at = "created"
    /\ LET path == Unwrap(keypair_path(pc.prefix))
       IN  files' = [files EXCEPT ![path].mode = S_IWUSR + S_IRUSR]
    /\ pc' = [pc EXCEPT !.at = "permitted"]
    /\ UNCHANGED <<base_paths, key_indices, parked, dirs, key_index, builder, alive, last, built, loaded, created, stage, nFaults, nWrites>>

\* save_keypair: file.write_all(..); then the withdrawal key's save_keypair,
\* or Ok(self) from write_keypair_files.
save_keypair_write_all ==
    /\ alive
    /\ pc.at = "permitted"
    /\ LET path == Unwrap(keypair_path(pc.prefix))
       IN  files' = [files EXCEPT ![path].data = keypair_as_ssz_bytes(keypair_of(pc.prefix))]
    /\ IF pc.prefix = VOTING_KEY_PREFIX
       THEN /\ pc' = [Idle EXCEPT !.at = "save_keypair", !.prefix = WITHDRAWAL_KEY_PREFIX]
            /\ UNCHANGED <<key_index, builder, alive, last, loaded, stage>>
       ELSE Returned("write_keypair_files", builder, 6)
    /\ UNCHANGED <<base_paths, key_indices, parked, dirs, built, created, nFaults, nWrites>>

\* save_keypair when set_permissions or write_all fails: the file stays as
\* it is, or with the bytes written before the failure.
save_keypair_io_error ==
    /\ alive
    /\ pc.at \in {"created", "permitted"}
    /\ LET path == Unwrap(keypair_path(pc.prefix))
           bytes == keypair_as_ssz_bytes(keypair_of(pc.prefix))
       IN  IF pc.at = "created"
           THEN /\ Failed("write_keypair_files", "Unable to set file permissions")
                /\ UNCHANGED files
           ELSE /\ Failed("write_keypair_files", "Unable to write keypair to file")
                /\ \E n \in PartialLengths(Len(bytes)) :
                      files' = [files EXCEPT ![path].data = SubSeq(bytes, 1, n)]
    /\ UNCHANGED <<base_paths, key_indices, parked, dirs, built, nFaults, nWrites>>

\* ValidatorDirectoryBuilder::write_eth1_data_file
write_eth1_data_file ==
    /\ CanStep
    /\ IF IsNone(builder.voting_keypair)
       THEN /\ Failed("write_eth1_data_file", "write_eth1_data_file requires a voting_keypair")
            /\ UNCHANGED <<files, nWrites>>
       ELSE IF IsNone(builder.withdrawal_keypair)
       THEN /\ Failed("write_eth1_data_file", "write_eth1_data_file requires a withdrawal_keypair")
            /\ UNCHANGED <<files, nWrites>>
       ELSE IF IsNone(builder.amount)
       THEN /\ Failed("write_eth1_data_file", "write_eth1_data_file requires an amount")
            /\ UNCHANGED <<files, nWrites>>
       ELSE IF IsNone(builder.spec)
       THEN /\ Failed("write_eth1_data_file", "build requires a spec")
            /\ UNCHANGED <<files, nWrites>>
       ELSE IF IsNone(builder.directory)
       THEN /\ Failed("write_eth1_data_file", "write_eth1_data_file requires a directory")
            /\ UNCHANGED <<files, nWrites>>
       ELSE LET path == join(Unwrap(builder.directory), Name(ETH1_DEPOSIT_DATA_FILE))
                deposit_data == eth1_deposit_bytes(Unwrap(builder.voting_keypair),
                                    Unwrap(builder.withdrawal_keypair),
                                    Unwrap(builder.amount), Unwrap(builder.spec))
                text == eth1_file_bytes(deposit_data)
            IN  IF exists(path)
                THEN /\ Failed("write_eth1_data_file", "Eth1 data file already exists")
                     /\ UNCHANGED <<files, nWrites>>
                ELSE \/ /\ CanWrite
                        /\ nWrites' = nWrites + 1
                        /\ files' = WithFile(files, path, RegularFile(CREATE_MODE, text))
                        /\ Returned("write_eth1_data_file",
                               [builder EXCEPT !.deposit_data = Some(deposit_data)], 7)
                        /\ UNCHANGED created
                     \/ \* write_all fails after File::create
                        /\ CanWrite
                        /\ nWrites' = nWrites + 1
                        /\ \E n \in PartialLengths(Len(text)) :
                              files' = WithFile(files, path,
                                           RegularFile(CREATE_MODE, SubSeq(text, 1, n)))
                        /\ Failed("write_eth1_data_file", "Unable to write eth1 data file")
    /\ UNCHANGED <<base_paths, key_indices, parked, dirs, built, nFaults>>

\* create_sqlite_slashing_dbs over a block store that retains the parameter
\* it is created with, or one with the storage bug.
create_sqlite_slashing_dbs_on(store_retains) ==
    /\ CanStep
    /\ IF IsNone(builder.directory)
       THEN /\ Failed("create_sqlite_slashing_dbs", "create_sqlite_slashing_dbs requires a directory")
            /\ UNCHANGED <<files, nWrites>>
       ELSE LET path == Unwrap(builder.directory)
                attestation_path == join(path, Name(ATTESTER_SLASHING_DB))
                block_path == join(path, Name(BLOCK_PRODUCER_SLASHING_DB))
                attestation == ValidatorHistory_new(files, attestation_path, None)
            IN  IF ~attestation.ok
                THEN /\ Failed("create_sqlite_slashing_dbs", "Unable to create attestation store")
                     /\ UNCHANGED <<files, nWrites>>
                ELSE LET new_block(fs, p, spe) ==
                             IF store_retains THEN ValidatorHistory_new(fs, p, spe)
                             ELSE ValidatorHistory_new_forgetting(fs, p, spe)
                         block == new_block(attestation.val,
                                      join(path, block_path), builder.slots_per_epoch)
                     IN  IF ~block.ok
                         THEN /\ CanWrite
                              /\ nWrites' = nWrites + 1
                              /\ Failed("create_sqlite_slashing_dbs", "Unable to create block store")
                              /\ files' = attestation.val
                         ELSE /\ CanWrite
                              /\ nWrites' = nWrites + 1
                              /\ files' = block.val
                              /\ Returned("create_sqlite_slashing_dbs",
                                    [builder EXCEPT
                                        !.attestation_slashing_protection = Some(attestation_path),
                                        !.block_slashing_protection = Some(block_path)], 8)
                              /\ UNCHANGED created
    /\ UNCHANGED <<base_paths, key_indices, parked, dirs, built, nFaults>>

\* ValidatorDirectoryBuilder::create_sqlite_slashing_dbs
create_sqlite_slashing_dbs == create_sqlite_slashing_dbs_on(TRUE)

\* create_sqlite_slashing_dbs over a block store with the storage bug.
create_sqlite_slashing_dbs_storage_bug == create_sqlite_slashing_dbs_on(FALSE)

\* A build that forgets the slots_per_epoch.
build_without_slots_per_epoch ==
    /\ CanStep
    /\ IF IsNone(builder.directory)
       THEN /\ built' = [NoResult EXCEPT !.called = TRUE, !.err = "build requires a directory"]
            /\ last' = Called("build", FALSE, "build requires a directory")
            /\ stage' = -1
       ELSE /\ built' = [ok |-> TRUE, err |-> "", called |-> TRUE,
                         val |-> Some(
                           [directory |-> Unwrap(builder.directory),
                            voting_keypair |-> builder.voting_keypair,
                            withdrawal_keypair |-> builder.withdrawal_keypair,
                            deposit_data |-> builder.deposit_data,
                            attestation_slashing_protection |-> builder.attestation_slashing_protection,
                            block_slashing_protection |-> builder.block_slashing_protection,
                            slots_per_epoch |-> None])]
            /\ last' = Called("build", TRUE, "")
            /\ stage' = NextStage(9)
    /\ builder' = DefaultBuilder
    /\ key_index' = None
    /\ alive' = FALSE
    /\ loaded' = NoLoad
    /\ UNCHANGED <<base_paths, key_indices, parked, dirs, files, pc, created, nFaults, nWrites>>

\* ValidatorDirectoryBuilder::build
build ==
    /\ CanStep
    /\ IF IsNone(builder.directory)
       THEN /\ built' = [NoResult EXCEPT !.called = TRUE, !.err = "build requires a directory"]
            /\ last' = Called("build", FALSE, "build requires a directory")
            /\ stage' = -1
       ELSE /\ built' = [ok |-> TRUE, err |-> "", called |-> TRUE,
                         val |-> Some(
                           [directory |-> Unwrap(builder.directory),
                            voting_keypair |-> builder.voting_keypair,
                            withdrawal_keypair |-> builder.withdrawal_keypair,
                            deposit_data |-> builder.deposit_data,
                            attestation_slashing_protection |-> builder.attestation_slashing_protection,
                            block_slashing_protection |-> builder.block_slashing_protection,
                            slots_per_epoch |-> builder.slots_per_epoch])]
            /\ last' = Called("build", TRUE, "")
            /\ stage' = NextStage(9)
    /\ builder' = DefaultBuilder
    /\ key_index' = None
    /\ alive' = FALSE
    /\ loaded' = NoLoad
    /\ UNCHANGED <<base_paths, key_indices, parked, dirs, files, pc, created, nFaults, nWrites>>

\* The directories a caller loads: the validator directories that exist,
\* and one that does not.
LoadTargets == {d \in dirs : Len(d.comps) > 1} \cup {Path(TRUE, <<<<"n">>>>)}

\* A call of ValidatorDirectory::load_for_signing and its result. The call
\* writes nothing, so a second load of the same disk returns what the first
\* did: each disk state is loaded once, with every directory and fallback.
load_for_signing_call ==
    /\ ~loaded.called
    /\ \E directory \in LoadTargets, fallback \in SlotsPerEpochValues :
          LET result == load_for_signing(directory, fallback)
          IN  /\ loaded' = [called |-> TRUE, ok |-> result.ok, err |-> result.err,
                            val |-> IF result.ok THEN Some(result.val) ELSE None,
                            directory |-> Some(directory),
                            slots_per_epoch |-> Some(fallback)]
              /\ last' = Called("load_for_signing", result.ok, result.err)
    /\ UNCHANGED <<base_paths, key_indices, parked, dirs, files, key_index, builder, alive, pc, built, created, stage, nFaults, nWrites>>

\* A call of ValidatorDirectory::load_for_signing once the builder is done
\* (the two are used in sequence).
Load ==
    /\ ~alive
    /\ load_for_signing_call

\* A call of ValidatorDirectory::load_for_signing between two steps of a
\* builder, each step taken as a whole.
LoadBetweenSteps ==
    /\ CanStep
    /\ load_for_signing_call

\* Another process removes a file of a directory the builder is done with.
RemoveFile ==
    /\ ~alive
    /\ nFaults < MaxFaults
    /\ nFaults' = nFaults + 1
    /\ \E p \in DOMAIN files : files' = WithoutFile(files, p)
    /\ last' = Called("remove_file", TRUE, "")
    /\ loaded' = NoLoad
    /\ stage' = -1
    /\ built' = NoResult
    /\ UNCHANGED <<base_paths, key_indices, parked, dirs, key_index, builder, alive, pc, created, nWrites>>

\* Another process, or the disk, damages a file: a regular file keeps only
\* a prefix of its bytes, a database is a database no more.
DamageFile ==
    /\ ~alive
    /\ nFaults < MaxFaults
    /\ nFaults' = nFaults + 1
    /\ \E p \in DOMAIN files :
          IF files[p].kind = "db"
          THEN files' = [files EXCEPT ![p] = RegularFile(files[p].mode, <<>>)]
          ELSE \E n \in PartialLengths(Len(files[p].data)) :
                  files' = [files EXCEPT ![p].data = SubSeq(files[p].data, 1, n)]
    /\ last' = Called("damage_file", TRUE, "")
    /\ loaded' = NoLoad
    /\ stage' = -1
    /\ built' = NoResult
    /\ UNCHANGED <<base_paths, key_indices, parked, dirs, key_index, builder, alive, pc, created, nWrites>>

Next ==
    \/ spec
    \/ slots_per_epoch
    \/ full_deposit_amount
    \/ custom_deposit_amount
    \/ thread_random_keypairs
    \/ insecure_keypairs
    \/ create_directory
    \/ write_keypair_files
    \/ save_keypair_create
    \/ save_keypair_set_permissions
    \/ save_keypair_write_all
    \/ save_keypair_io_error
    \/ write_eth1_data_file
    \/ create_sqlite_slashing_dbs
    \/ build
    \/ Load
    \/ RemoveFile
    \/ DamageFile

Spec == Init /\ [][Next]_vars

\* The builder and the loader over a block store that may have the storage
\* bug.
NextStore ==
    \/ Next
    \/ create_sqlite_slashing_dbs_storage_bug

SpecStore == Init /\ [][NextStore]_vars

\* The builder, and a loader that may also run between the builder's steps.
NextLoad ==
    \/ Next
    \/ LoadBetweenSteps

SpecLoad == Init /\ [][NextLoad]_vars

\* ------------------------------------------------------------------ two callers

\* Two callers, each with a builder of its own, over one file system. One
\* caller is at work (builder, alive, pc, built, created, stage, key_index),
\* the other is parked; create_directory is two steps, the existence check
\* and fs::create_dir_all, and the callers may change places between them.

\* The base paths of the two callers: an absolute one, a relative one, and
\* a relative one inside the directory of the first deterministic key.
TwoBasePaths ==
    {Path(TRUE, <<<<"v">>>>),
     Path(FALSE, <<<<"r">>>>),
     Path(FALSE, <<<<"r">>, dir_name(generate_deterministic_keypair(0).pk), <<"r">>>>)}

TwoKeyIndices == {0, 1}

\* A second caller that holds a new builder.
NewCaller == [Nobody EXCEPT !.alive = TRUE]

\* The caller at work.
Working ==
    [builder |-> builder, alive |-> alive, pc |-> pc, built |-> built,
     created |-> created, stage |-> stage, key_index |-> key_index]

InitTwo ==
    /\ dirs = {Path(TRUE, <<<<"v">>>>)}
    /\ files = <<>>
    /\ builder = DefaultBuilder
    /\ alive = TRUE
    /\ pc = Idle
    /\ last = Called("init", TRUE, "")
    /\ built = NoResult
    /\ loaded = NoLoad
    /\ created = None
    /\ stage = -1
    /\ nFaults = 0
    /\ nWrites = 0
    /\ key_index = None
    /\ base_paths = TwoBasePaths
    /\ key_indices = TwoKeyIndices
    /\ parked = NewCaller

\* The callers change places: the parked one, if it holds a builder, goes
\* on where it stopped.
Switch ==
    /\ parked.alive
    /\ parked' = Working
    /\ builder' = parked.builder
    /\ alive' = parked.alive
    /\ pc' = parked.pc
    /\ built' = parked.built
    /\ created' = parked.created
    /\ stage' = parked.stage
    /\ key_index' = parked.key_index
    /\ UNCHANGED <<base_paths, key_indices, dirs, files, last, loaded, nFaults, nWrites>>

\* ValidatorDirectoryBuilder::create_directory, up to fs::create_dir_all:
\* the voting keypair and the existence check.
create_directory_check ==
    /\ CanStep
    /\ \E base_path \in base_paths :
          IF IsNone(builder.voting_keypair)
          THEN Failed("create_directory", "directory requires a voting_keypair")
          ELSE LET directory ==
                       join(base_path, Name(dir_name(Unwrap(builder.voting_keypair).pk)))
               IN  IF exists(directory)
                   THEN Failed("create_directory", "Validator directory already exists")
                   ELSE /\ pc' = [Idle EXCEPT !.at = "create_dir_all",
                                              !.directory = Some(directory)]
                        /\ last' = Called("create_directory", FALSE, "running")
                        /\ loaded' = NoLoad
                        /\ UNCHANGED <<key_index, builder, alive, created, stage>>
    /\ UNCHANGED <<base_paths, key_indices, parked, dirs, files, built, nFaults, nWrites>>

\* A create_directory that makes the directory with fs::create_dir, which
\* fails on a directory that is there.
create_directory_all_exclusive ==
    /\ alive
    /\ pc.at = "create_dir_all"
    /\ LET directory == Unwrap(pc.directory)
       IN  IF exists(directory)
           THEN /\ Failed("create_directory", "Unable to create validator directory")
                /\ UNCHANGED <<dirs, nWrites>>
           ELSE /\ CanWrite
                /\ nWrites' = nWrites + 1
                /\ dirs' = dirs \cup Ancestors(directory)
                /\ Returned("create_directory",
                       [builder EXCEPT !.directory = Some(directory)], 5)
                /\ created' = Some([pk |-> Unwrap(builder.voting_keypair).pk,
                                    base_path |-> Parent(directory)])
    /\ UNCHANGED <<base_paths, key_indices, parked, files, built, nFaults>>

\* ValidatorDirectoryBuilder::create_directory, from fs::create_dir_all on:
\* it makes the directory and those above it, is content with a directory
\* that is there already, and fails only where a file is in the way.
create_directory_all ==
    /\ alive
    /\ pc.at = "create_dir_all"
    /\ LET directory == Unwrap(pc.directory)
       IN  IF Ancestors(directory) \cap DOMAIN files # {}
           THEN /\ Failed("create_directory", "Unable to create validator directory")
                /\ UNCHANGED <<dirs, nWrites>>
           ELSE /\ CanWrite
                /\ nWrites' = nWrites + 1
                /\ dirs' = dirs \cup Ancestors(directory)
                /\ Returned("create_directory",
                       [builder EXCEPT !.directory = Some(directory)], 5)
                /\ created' = Some([pk |-> Unwrap(builder.voting_keypair).pk,
                                    base_path |-> Parent(directory)])
    /\ UNCHANGED <<base_paths, key_indices, parked, files, built, nFaults>>

\* The steps of two callers that choose keys, create directories and
\* stores, and build.
NextTwo ==
    \/ thread_random_keypairs
    \/ insecure_keypairs
    \/ create_directory_check
    \/ create_directory_all
    \/ create_sqlite_slashing_dbs
    \/ build
    \/ Switch

SpecTwo == InitTwo /\ [][NextTwo]_vars

\* ------------------------------------------------------------------ claims

\* The files of a validator directory.
VotingFile(directory) == join(directory, Name(keypair_file(VOTING_KEY_PREFIX)))
WithdrawalFile(directory) == join(directory, Name(keypair_file(WITHDRAWAL_KEY_PREFIX)))
DepositFile(directory) == join(directory, Name(ETH1_DEPOSIT_DATA_FILE))
AttesterStore(directory) == join(directory, Name(ATTESTER_SLASHING_DB))
BlockStore(directory) == join(directory, Name(BLOCK_PRODUCER_SLASHING_DB))

\* The last call was a load_for_signing of `directory`.
LoadedFrom(directory) == loaded.called /\ loaded.directory = Some(directory)

\* The builder ran the steps of the round-trip tests, each in its turn and
\* each with success, build() the last; no file changed since.
PipelineBuilt == stage = 9 /\ built.ok

\* C1: after the full pipeline (spec, slots_per_epoch(s), amount, keys,
\* create_directory, write_keypair_files, write_eth1_data_file,
\* create_sqlite_slashing_dbs, build), load_for_signing of the built
\* directory with the same s succeeds and returns a record equal to the
\* built one in every field.
C1_RoundTrip ==
    (/\ PipelineBuilt
     /\ LoadedFrom(Unwrap(built.val).directory)
     /\ loaded.slots_per_epoch = Unwrap(built.val).slots_per_epoch)
    => (loaded.ok /\ loaded.val = built.val)

C1_Witness ==
    /\ PipelineBuilt
    /\ LoadedFrom(Unwrap(built.val).directory)
    /\ loaded.slots_per_epoch = Unwrap(built.val).slots_per_epoch
    /\ loaded.ok
    /\ loaded.val = built.val
    /\ Unwrap(Unwrap(built.val).voting_keypair) # Unwrap(Unwrap(built.val).withdrawal_keypair)
    /\ Len(Unwrap(Unwrap(built.val).deposit_data)) > 0

\* C2: a load_for_signing returns Ok only if both slashing protection files
\* exist in the directory; if either is absent it returns an error and no
\* record, whatever else the directory holds.
C2_MissingStoreRejected ==
    loaded.called =>
        LET directory == Unwrap(loaded.directory)
            both == AttesterStore(directory) \in DOMAIN files
                    /\ BlockStore(directory) \in DOMAIN files
        IN  /\ loaded.ok => both
            /\ ~both => (~loaded.ok /\ loaded.val = None /\ loaded.err # "")

\* A load fails for a missing store alone: the directory, both key files
\* and the deposit file are there and well-formed.
C2_Witness ==
    /\ loaded.called
    /\ ~loaded.ok
    /\ loaded.err = "Unable to find slashing protection"
    /\ LET directory == Unwrap(loaded.directory)
       IN  /\ BlockStore(directory) \in DOMAIN files
           /\ AttesterStore(directory) \notin DOMAIN files
           /\ load_keypair(directory, VOTING_KEY_PREFIX).ok
           /\ load_keypair(directory, WITHDRAWAL_KEY_PREFIX).ok
           /\ load_eth1_deposit_data(directory).ok

\* The keypair files.
IsKeypairFile(p) ==
    FileName(p) \in {keypair_file(VOTING_KEY_PREFIX), keypair_file(WITHDRAWAL_KEY_PREFIX)}

OwnerReadWrite == S_IRUSR + S_IWUSR

\* C3: at every moment of write_keypair_files and after it, a keypair file
\* that holds any byte has mode owner-read/owner-write exactly; when the
\* step returns Ok both key files exist, hold the keys and carry that mode.
C3_SecretsOwnerOnly ==
    /\ \A p \in DOMAIN files :
          (IsKeypairFile(p) /\ files[p].data # <<>>) => files[p].mode = OwnerReadWrite
    /\ (last = Called("write_keypair_files", TRUE, "") /\ alive) =>
          \A p \in {VotingFile(Unwrap(builder.directory)),
                    WithdrawalFile(Unwrap(builder.directory))} :
              /\ p \in DOMAIN files
              /\ files[p].mode = OwnerReadWrite
              /\ files[p].data # <<>>

C3_Witness ==
    /\ last = Called("write_keypair_files", TRUE, "")
    /\ alive
    /\ files[VotingFile(Unwrap(builder.directory))].mode = OwnerReadWrite
    /\ files[WithdrawalFile(Unwrap(builder.directory))].mode = OwnerReadWrite
    /\ files[VotingFile(Unwrap(builder.directory))].data
          = keypair_as_ssz_bytes(Unwrap(builder.voting_keypair))

\* The step taken is a call of create_directory.
CreateDirectoryStep == CanStep /\ last'.op = "create_directory"

\* C4: a create_directory that finds the directory named after the voting
\* key under the base path fails with "already exists" and leaves every
\* directory and file as it was; so a create_directory returns Ok only for
\* a directory that did not exist, and a second call with the same key and
\* base path fails.
C4_DirectoryCollision ==
    [][CreateDirectoryStep =>
          /\ last'.ok => ~exists(Unwrap(builder'.directory))
          /\ (/\ IsSome(builder.voting_keypair)
              /\ \A base_path \in BasePaths :
                     exists(join(base_path, Name(dir_name(Unwrap(builder.voting_keypair).pk)))))
             => last' = Called("create_directory", FALSE, "Validator directory already exists")
          /\ ~last'.ok => (dirs' = dirs /\ files' = files)]_vars

\* A second create_directory with the same key was refused, and the files
\* written after the first are there.
C4_Witness ==
    /\ last = Called("create_directory", FALSE, "Validator directory already exists")
    /\ \E p \in DOMAIN files : IsKeypairFile(p) /\ files[p].data # <<>>

\* The step taken is save_keypair's check and creation of the key file.
SaveKeypairStep == alive /\ pc.at = "save_keypair" /\ IsSome(keypair_path(pc.prefix))

\* The step taken is a call of write_eth1_data_file with a directory.
WriteEth1Step ==
    CanStep /\ last'.op = "write_eth1_data_file" /\ IsSome(builder.directory)

\* C5: a write_keypair_files or write_eth1_data_file whose target file
\* exists fails, and every file keeps its content and mode.
C5_NoOverwrite ==
    [][/\ (SaveKeypairStep /\ exists(Unwrap(keypair_path(pc.prefix)))) =>
              (~last'.ok /\ ~alive' /\ files' = files)
       /\ (WriteEth1Step /\ exists(DepositFile(Unwrap(builder.directory)))) =>
              (~last'.ok /\ ~alive' /\ files' = files)]_vars

\* A second write_keypair_files was refused and the key file is intact.
C5_Witness ==
    /\ last = Called("write_keypair_files", FALSE, "Keypair file already exists")
    /\ \E p \in DOMAIN files :
          /\ IsKeypairFile(p)
          /\ keypair_from_ssz_bytes(files[p].data).ok
          /\ files[p].mode = OwnerReadWrite

\* C6: for every record build() returns, after any steps in any order, a
\* record with a voting keypair has a directory whose last component is
\* "0x" and the hex of that voting public key's bytes and whose parent is
\* the base path given to create_directory.
C6_DirectoryIdentity ==
    (built.ok /\ IsSome(Unwrap(built.val).voting_keypair)) =>
        LET record == Unwrap(built.val)
            pk == Unwrap(record.voting_keypair).pk
        IN  /\ FileName(record.directory)
                  = <<"0", "x">> \o hex_encode(ToBytes(pk, PkBytesLen))
            /\ IsSome(created)
            /\ Parent(record.directory) = Unwrap(created).base_path

\* The block-proposal store of the directory last loaded.
LoadedBlockStore == files[BlockStore(Unwrap(loaded.directory))]

\* C7: a load_for_signing of a directory whose block-proposal store holds
\* slots_per_epoch = s returns, when it returns Ok, a record with
\* slots_per_epoch = s whatever fallback the caller gave; the fallback shows
\* in the record only when the store holds no value.
C7_StoredSlotsAuthoritative ==
    (loaded.called /\ loaded.ok) =>
        /\ IsSome(LoadedBlockStore.spe) =>
              Unwrap(loaded.val).slots_per_epoch = LoadedBlockStore.spe
        /\ Unwrap(loaded.val).slots_per_epoch # LoadedBlockStore.spe =>
              (/\ IsNone(LoadedBlockStore.spe)
               /\ Unwrap(loaded.val).slots_per_epoch = loaded.slots_per_epoch)

\* A load with a fallback other than the stored value returned the stored one.
C7_Witness ==
    /\ loaded.called
    /\ loaded.ok
    /\ IsSome(LoadedBlockStore.spe)
    /\ loaded.slots_per_epoch # LoadedBlockStore.spe
    /\ Unwrap(loaded.val).slots_per_epoch = LoadedBlockStore.spe

LoadedStoresPresent ==
    /\ loaded.called
    /\ exists(Unwrap(loaded.directory))
    /\ \A p \in {AttesterStore(Unwrap(loaded.directory)), BlockStore(Unwrap(loaded.directory))} :
          p \in DOMAIN files /\ files[p].kind = "db"

\* C9: with the directory and both stores present, load_for_signing fails
\* if the voting keypair file is absent; with a voting keypair file that
\* decodes it succeeds, and the record's withdrawal_keypair and deposit_data
\* are set exactly for the files that are present.
C9_LoaderAsymmetry ==
    LoadedStoresPresent =>
        LET directory == Unwrap(loaded.directory)
        IN  /\ ~exists(VotingFile(directory)) => ~loaded.ok
            /\ load_keypair(directory, VOTING_KEY_PREFIX).ok =>
                  /\ loaded.ok
                  /\ IsSome(Unwrap(loaded.val).withdrawal_keypair)
                        <=> exists(WithdrawalFile(directory))
                  /\ IsSome(Unwrap(loaded.val).deposit_data)
                        <=> exists(DepositFile(directory))

\* A file of the directory is present and does not decode.
Malformed(directory) ==
    \/ \E prefix \in {VOTING_KEY_PREFIX, WITHDRAWAL_KEY_PREFIX} :
          /\ exists(join(directory, Name(keypair_file(prefix))))
          /\ ~load_keypair(directory, prefix).ok
    \/ /\ exists(DepositFile(directory))
       /\ ~load_eth1_deposit_data(directory).ok

\* C10: a load_for_signing of a directory in which the deposit file or a
\* keypair file is present and malformed fails.
C10_DecodingFailuresFatal ==
    (loaded.called /\ Malformed(Unwrap(loaded.directory))) => ~loaded.ok

\* A file-writing step is called on a builder without a directory.
WritingStepWithoutDirectory ==
    /\ IsNone(created)
    /\ \/ CanStep /\ last'.op \in {"write_keypair_files", "write_eth1_data_file",
                                   "create_sqlite_slashing_dbs"}
       \/ alive /\ pc.at = "save_keypair"

\* C13: write_keypair_files, write_eth1_data_file and
\* create_sqlite_slashing_dbs on a builder on which no create_directory has
\* succeeded fail with a prerequisite failure, write_keypair_files at its
\* first save_keypair, and no file or directory is created.
C13_DirectoryPrecedesWrites ==
    [][WritingStepWithoutDirectory =>
          /\ ~last'.ok
          /\ files' = files
          /\ dirs' = dirs
          /\ (last'.op # "write_keypair_files" \/ pc.at = "save_keypair") => ~alive'
          /\ pc.at = "save_keypair" =>
                last' = Called("write_keypair_files", FALSE, "save_keypair requires a directory")]_vars

\* write_keypair_files failed for the missing directory, with both keys set.
C13_Witness ==
    /\ last = Called("write_keypair_files", FALSE, "save_keypair requires a directory")
    /\ files = <<>>
    /\ ~alive

\* The step taken is a call of build.
BuildStep == CanStep /\ last'.op = "build"

\* C14: build() fails if and only if no create_directory has succeeded on
\* the builder; with a directory it returns a record that has the
\* builder's directory, keypairs, deposit data, store paths and
\* slots_per_epoch, unset where the builder's are unset.
C14_Finalization ==
    [][BuildStep =>
          /\ built'.called
          /\ built'.ok <=> IsSome(created)
          /\ ~built'.ok => built'.val = None
          /\ built'.ok =>
                LET record == Unwrap(built'.val)
                IN  /\ record.directory = Unwrap(builder.directory)
                    /\ \A f \in {"voting_keypair", "withdrawal_keypair", "deposit_data",
                                 "attestation_slashing_protection",
                                 "block_slashing_protection", "slots_per_epoch"} :
                           record[f] = builder[f]]_vars

\* A record built of a directory and keys alone, and one with all set.
C14_Witness ==
    /\ built.ok
    /\ IsSome(Unwrap(built.val).voting_keypair)
    /\ IsNone(Unwrap(built.val).deposit_data)
    /\ IsNone(Unwrap(built.val).block_slashing_protection)
    /\ IsSome(Unwrap(built.val).slots_per_epoch)

\* What write_eth1_data_file requires is there.
Eth1Prerequisites ==
    /\ IsSome(builder.voting_keypair)
    /\ IsSome(builder.withdrawal_keypair)
    /\ IsSome(builder.amount)
    /\ IsSome(builder.spec)
    /\ IsSome(builder.directory)

\* C15: write_eth1_data_file without a voting keypair, withdrawal keypair,
\* amount, spec or directory fails, writes no file and records no deposit
\* data; with all five and no deposit file it fails only if the write does,
\* and when it returns Ok the file is there and deposit_data is the bytes
\* whose hex, after "0x", is the file's content.
C15_DepositPrerequisites ==
    [][(CanStep /\ last'.op = "write_eth1_data_file") =>
          /\ ~Eth1Prerequisites =>
                /\ ~last'.ok
                /\ last'.err # "Unable to write eth1 data file"
                /\ files' = files
                /\ dirs' = dirs
                /\ IsNone(builder'.deposit_data)
          /\ (Eth1Prerequisites /\ ~exists(DepositFile(Unwrap(builder.directory)))) =>
                /\ last'.ok \/ last'.err = "Unable to write eth1 data file"
                /\ last'.ok =>
                      LET path == DepositFile(Unwrap(builder.directory))
                      IN  /\ path \in DOMAIN files'
                          /\ IsSome(builder'.deposit_data)
                          /\ from_utf8_lossy(files'[path].data)
                                = <<"0", "x">> \o hex_encode(Unwrap(builder'.deposit_data))]_vars

\* write_eth1_data_file returned Ok and the file holds the deposit data.
C15_Witness ==
    /\ last = Called("write_eth1_data_file", TRUE, "")
    /\ alive
    /\ Len(Unwrap(builder.deposit_data)) > 0
    /\ Len(files[DepositFile(Unwrap(builder.directory))].data)
          = 2 + 2 * Len(Unwrap(builder.deposit_data))

\* The step taken is one of the builder or the loader, not of another
\* process.
ComponentStep == last'.op \notin {"remove_file", "damage_file"}

\* A create_sqlite_slashing_dbs that reaches its ValidatorHistory::new calls.
CreateStoresStep ==
    CanStep /\ last'.op = "create_sqlite_slashing_dbs" /\ IsSome(builder.directory)

\* C12: once a slashing protection file exists no step of the builder or
\* the loader deletes or changes it, and ValidatorHistory::new is not
\* called on it again: a create_sqlite_slashing_dbs whose directory holds a
\* store does not reach the creation of that store.
C12_StoresCreatedOnce ==
    [][/\ ComponentStep =>
              \A p \in DOMAIN files :
                  files[p].kind = "db" => (p \in DOMAIN files' /\ files'[p] = files[p])
       /\ CreateStoresStep =>
              /\ AttesterStore(Unwrap(builder.directory)) \notin DOMAIN files
              /\ BlockStore(Unwrap(builder.directory)) \notin DOMAIN files]_vars

\* C19: a record load_for_signing returns as Ok has the directory it was
\* given, a voting keypair, the two store paths directory/<store file name>
\* and a slots_per_epoch; withdrawal_keypair and deposit_data alone may be
\* unset.
C19_LoadedRecordFields ==
    (loaded.called /\ loaded.ok) =>
        LET record == Unwrap(loaded.val)
            directory == Unwrap(loaded.directory)
        IN  /\ record.directory = directory
            /\ IsSome(record.voting_keypair)
            /\ record.attestation_slashing_protection
                  = Some(Path(directory.abs,
                              directory.comps \o <<ATTESTER_SLASHING_DB>>))
            /\ record.block_slashing_protection
                  = Some(Path(directory.abs,
                              directory.comps \o <<BLOCK_PRODUCER_SLASHING_DB>>))
            /\ IsSome(record.slots_per_epoch)

\* An Ok record with no withdrawal keypair and no deposit data.
C19_Witness ==
    /\ loaded.called
    /\ loaded.ok
    /\ IsSome(Unwrap(loaded.val).voting_keypair)
    /\ IsNone(Unwrap(loaded.val).withdrawal_keypair)
    /\ IsNone(Unwrap(loaded.val).deposit_data)
    /\ IsSome(Unwrap(loaded.val).slots_per_epoch)

\* C11: create_sqlite_slashing_dbs reads the parameter back from the block
\* store it created and returns Ok only if the store holds the builder's
\* slots_per_epoch.
C11_FailFastStoreCreation ==
    (last = Called("create_sqlite_slashing_dbs", TRUE, "") /\ alive) =>
        LET store == BlockStore(Unwrap(builder.directory))
        IN  /\ store \in DOMAIN files
            /\ files[store].spe = builder.slots_per_epoch

\* C20: a load_for_signing of the builder's directory that runs between
\* two steps of a pipeline taken in the typical order fails before
\* create_sqlite_slashing_dbs has run, and after it returns, if Ok, the
\* record that build() then returns.
C20_StoresCommitBuild ==
    [][/\ (/\ alive
           /\ stage \in 5..7
           /\ LoadedFrom(Unwrap(builder.directory))) => ~loaded.ok
       /\ (/\ BuildStep
           /\ stage = 8
           /\ LoadedFrom(Unwrap(builder.directory))
           /\ loaded.ok) => (built'.ok /\ built'.val = loaded.val)]_vars

\* A load between create_sqlite_slashing_dbs and build returned Ok, with a
\* fallback other than the builder's slots_per_epoch.
C20_Witness ==
    /\ alive
    /\ stage = 8
    /\ LoadedFrom(Unwrap(builder.directory))
    /\ loaded.ok
    /\ loaded.slots_per_epoch # builder.slots_per_epoch
    /\ IsSome(Unwrap(loaded.val).deposit_data)

\* A step of the caller at work; the other caller stays parked.
WorkingStep == parked' = parked

\* The deterministic keypair of the index the builder's keys came from.
IndexKeypair == generate_deterministic_keypair(Unwrap(key_index))

\* C16: a build of a builder whose keys insecure_keypairs derived from an
\* index returns that index's deterministic keypair as the voting keypair
\* and as the withdrawal keypair, whatever steps came between, whatever the
\* directory and the files; so two builds from the same index, into
\* different directories, return identical keypairs.
C16_DeterministicKeys ==
    [][BuildStep /\ WorkingStep /\ IsSome(key_index) /\ built'.ok
         => /\ Unwrap(built'.val).voting_keypair = Some(IndexKeypair)
            /\ Unwrap(built'.val).withdrawal_keypair = Some(IndexKeypair)]_vars

\* Two callers have built from index 0 into different directories, one
\* with stores and one without, and hold the same keypairs.
C16_Witness ==
    /\ built.ok
    /\ parked.built.ok
    /\ Unwrap(built.val).directory # Unwrap(parked.built.val).directory
    /\ IsSome(Unwrap(built.val).block_slashing_protection)
    /\ IsNone(Unwrap(parked.built.val).block_slashing_protection)
    /\ Unwrap(built.val).voting_keypair = Some(generate_deterministic_keypair(0))
    /\ Unwrap(built.val).withdrawal_keypair = Some(generate_deterministic_keypair(0))
    /\ Unwrap(parked.built.val).voting_keypair = Unwrap(built.val).voting_keypair
    /\ Unwrap(parked.built.val).withdrawal_keypair = Unwrap(built.val).withdrawal_keypair

IsStore(p) == p \in DOMAIN files' /\ files'[p].kind = "db"

\* C17: a create_sqlite_slashing_dbs that succeeds, whatever base path the
\* directory was created under, leaves both stores under their fixed names
\* directly inside the validator directory, and the builder records those
\* two paths, which are the paths of the stores it created.
C17_StorePlacement ==
    [][CreateStoresStep /\ WorkingStep /\ last'.ok
         => LET directory == Unwrap(builder.directory)
            IN  /\ IsStore(AttesterStore(directory))
                /\ IsStore(BlockStore(directory))
                /\ builder'.attestation_slashing_protection = Some(AttesterStore(directory))
                /\ builder'.block_slashing_protection = Some(BlockStore(directory))
                /\ DOMAIN files' \ DOMAIN files
                     = {AttesterStore(directory), BlockStore(directory)}]_vars

\* The fs::create_dir_all of a create_directory whose existence check passed.
CreateDirAllStep == alive /\ pc.at = "create_dir_all" /\ pc'.at = "idle" /\ WorkingStep

\* C18: between the existence check of create_directory and its
\* fs::create_dir_all another caller may create the directory, and the
\* create_directory that passed the check returns Ok with that directory
\* all the same; so two callers with the same voting key and base path may
\* both be told they created the directory.
C18_CheckThenCreate ==
    [][CreateDirAllStep
         => /\ last' = Called("create_directory", TRUE, "")
            /\ builder'.directory = pc.directory
            /\ Unwrap(pc.directory) \in dirs']_vars

\* Both callers hold a builder whose create_directory returned Ok, for the
\* same voting key and base path, hence the same directory.
C18_Witness ==
    /\ alive
    /\ parked.alive
    /\ IsSome(created)
    /\ created = parked.created
    /\ IsSome(builder.directory)
    /\ builder.directory = parked.builder.directory
    /\ builder.voting_keypair = parked.builder.voting_keypair

=============================================================================
